---- MODULE Spec2Model ----
(***************************************************************************)
(* Model of the distributed bootstrapping task scheduler of               *)
(* mpi_test/src/async_pbs_graph.rs: FheGraph (graph store, task builder),  *)
(* the TaskGraph implementation (init, commit_result, is_finished), the    *)
(* domain transforms (multisum, pbs) and the master / worker entry points. *)
(***************************************************************************)
EXTENDS Integers, Sequences, FiniteSets, TLC

VARIABLES
    raw,                        \* the Graph<Node, u64> handed to the master
    nworkers,                   \* number of worker ranks of the run
    pc,                         \* position of the master
    graph,                      \* FheGraph.graph
    not_computed_nodes_count,   \* FheGraph.not_computed_nodes_count
    queue,                      \* the engine's ready queue of (priority, task)
    busy,                       \* busy[w]: the master holds a slot for worker w
    chan_task,                  \* chan_task[w]: message master -> worker w
    chan_reply,                 \* chan_reply[w]: message worker w -> master
    wpc,                        \* position of each worker
    hist                        \* record of the calls made on the graph

vars == <<raw, nworkers, pc, graph, not_computed_nodes_count, queue, busy,
          chan_task, chan_reply, wpc, hist>>

(***************************************************************************)
(* Bounds of the model.                                                    *)
(***************************************************************************)
MaxNodes == 3
MaxEdges == 3
MaxWorkers == 2

(***************************************************************************)
(* Ciphertexts and lookup tables.                                          *)
(***************************************************************************)
MessageModulus == 4
CtModulus == 16
NoCt == -1
NoLut == "NoLut"

Max(S) == CHOOSE x \in S : \A y \in S : y <= x

Rev(s) == [k \in 1..Len(s) |-> s[Len(s) + 1 - k]]

\* the one element of a set of one element
The(S) == CHOOSE x \in S : TRUE

(***************************************************************************)
(* enum Node                                                               *)
(***************************************************************************)
Computed(c) == [tag |-> "Computed", ct |-> c, lut |-> NoLut]
BootsrapQueued == [tag |-> "BootsrapQueued", ct |-> NoCt, lut |-> NoLut]
ToCompute(l) == [tag |-> "ToCompute", ct |-> NoCt, lut |-> l]

(***************************************************************************)
(* petgraph::Graph queries.  A graph is [n, edges, node]: node indices are *)
(* 0..n-1, edges is the list of edges in insertion order, each             *)
(* [source, target, weight].  petgraph walks the edges of a node from the  *)
(* most recently added to the oldest, and yields a neighbour once per edge.*)
(***************************************************************************)
node_indices(g) == 0..(g.n - 1)

edges_directed_Incoming(g, i) == SelectSeq(Rev(g.edges), LAMBDA e : e.target = i)
edges_directed_Outgoing(g, i) == SelectSeq(Rev(g.edges), LAMBDA e : e.source = i)

neighbors_directed_Incoming(g, i) ==
    [k \in DOMAIN edges_directed_Incoming(g, i) |-> edges_directed_Incoming(g, i)[k].source]
neighbors_directed_Outgoing(g, i) ==
    [k \in DOMAIN edges_directed_Outgoing(g, i) |-> edges_directed_Outgoing(g, i)[k].target]

Range(s) == {s[k] : k \in DOMAIN s}

RECURSIVE ReachIn(_, _, _)
ReachIn(g, S, k) ==
    IF k = 0 THEN S
    ELSE ReachIn(g, S \cup {e.target : e \in {x \in Range(g.edges) : x.source \in S}}, k - 1)

is_cyclic_directed(g) ==
    \E i \in node_indices(g) :
        i \in ReachIn(g, {e.target : e \in {x \in Range(g.edges) : x.source = i}}, g.n)

(***************************************************************************)
(* Luts::new / Luts::get: the function each selector stands for, and the   *)
(* two homomorphic primitives of the cryptographic library, on ciphertexts *)
(* taken as elements of the additive group of integers modulo CtModulus.   *)
(***************************************************************************)
LutNames == <<"ExtractMessage", "ExtractCarry", "BivarMulLow", "BivarMulHigh">>

Luts_get(lut, x) ==
    CASE lut = "ExtractMessage" -> x % MessageModulus
      [] lut = "ExtractCarry" -> x \div MessageModulus
      [] lut = "BivarMulLow" -> ((x \div MessageModulus) * (x % MessageModulus)) % MessageModulus
      [] lut = "BivarMulHigh" -> ((x \div MessageModulus) * (x % MessageModulus)) \div MessageModulus
      [] OTHER -> x

apply_lookup_table(ct, lut) == Luts_get(lut, ct)

unchecked_scalar_mul(ct, scalar) == (ct * scalar) % CtModulus

unchecked_add_scalar_mul_assign(acc, ct, scalar) == (acc + ct * scalar) % CtModulus

as_u8(scalar) == scalar % 256

(***************************************************************************)
(* IndexedCtsAndLut::multisum and IndexedCtAndLut::pbs                     *)
(***************************************************************************)
\* variant: the rest of the list is added without its weights
RECURSIVE multisum_fold_unscaled(_, _, _)
multisum_fold_unscaled(acc, cts_and_weights, k) ==
    IF k > Len(cts_and_weights) THEN acc
    ELSE multisum_fold_unscaled((acc + cts_and_weights[k].ct) % CtModulus,
                                cts_and_weights, k + 1)

RECURSIVE multisum_fold(_, _, _)
multisum_fold(acc, cts_and_weights, k) ==
    IF k > Len(cts_and_weights) THEN acc
    ELSE multisum_fold(
             unchecked_add_scalar_mul_assign(acc, cts_and_weights[k].ct,
                                             as_u8(cts_and_weights[k].weight)),
             cts_and_weights, k + 1)

\* variant: a list of one pair is fatal too
multisum_panics_below_two(task) == Len(task.cts_and_weights) < 2

multisum_panics(task) == task.cts_and_weights = <<>>

\* variant: the loop over the rest of the list is left out
multisum_first_only(task) ==
    [index |-> task.index,
     ct |-> unchecked_scalar_mul(task.cts_and_weights[1].ct,
                                 as_u8(task.cts_and_weights[1].weight)),
     lut |-> task.lut]

multisum(task) ==
    [index |-> task.index,
     ct |-> multisum_fold(
                unchecked_scalar_mul(task.cts_and_weights[1].ct,
                                     as_u8(task.cts_and_weights[1].weight)),
                task.cts_and_weights, 2),
     lut |-> task.lut]

pbs(input) == [index |-> input.index, ct |-> apply_lookup_table(input.ct, input.lut)]

\* |(sks, luts), input| input.multisum(sks).pbs(sks, luts): both phases by
\* one process
multisum_then_pbs(task) == pbs(multisum(task))

(***************************************************************************)
(* insert_predecessors_recursively: the backward priority walk.            *)
(***************************************************************************)
\* variant: the smallest depth among the successors instead of the largest
min_successors_depth_unwrap(depths, successors) ==
    IF successors = <<>> THEN 0
    ELSE CHOOSE d \in {depths[s] : s \in Range(successors)} :
             \A s \in Range(successors) : d <= depths[s]

max_successors_depth_unwrap(depths, successors) ==
    IF successors = <<>> THEN 0 ELSE Max({depths[s] : s \in Range(successors)})

\* variant: the depth of the deepest successor, without the node itself
inserted_depth_without_node(depths, successors) == max_successors_depth_unwrap(depths, successors)

inserted_depth(depths, successors) == max_successors_depth_unwrap(depths, successors) + 1

all_successors_known(depths, successors) ==
    \A k \in DOMAIN successors : successors[k] \in DOMAIN depths

RECURSIVE insert_predecessors_recursively(_, _, _)
RECURSIVE insert_each_predecessor(_, _, _, _)

insert_predecessors_recursively(g, successors_max_depths, node_index) ==
    The({IF node_index \in DOMAIN depths THEN depths
         ELSE IF all_successors_known(depths, successors)
              THEN insert_each_predecessor(
                       g, (node_index :> inserted_depth(depths, successors)) @@ depths,
                       neighbors_directed_Incoming(g, node_index), 1)
              ELSE depths :
         depths \in {successors_max_depths},
         successors \in {neighbors_directed_Outgoing(g, node_index)}})

insert_each_predecessor(g, successors_max_depths, predecessors, k) ==
    IF k > Len(predecessors) THEN successors_max_depths
    ELSE insert_each_predecessor(
             g, insert_predecessors_recursively(g, successors_max_depths, predecessors[k]),
             predecessors, k + 1)

(***************************************************************************)
(* FheGraph::new                                                           *)
(***************************************************************************)
EmptyDepths == [i \in {} |-> 0]

\* variant: the walk starts only from the nodes without any edge
is_sink_without_edges(g, node_index) ==
    edges_directed_Outgoing(g, node_index) = <<>>
        /\ edges_directed_Incoming(g, node_index) = <<>>

is_sink(g, node_index) == edges_directed_Outgoing(g, node_index) = <<>>

RECURSIVE walk_from_sinks(_, _, _)
walk_from_sinks(g, depths, node_index) ==
    IF node_index >= g.n THEN depths
    ELSE walk_from_sinks(
             g,
             IF is_sink(g, node_index)
                 THEN insert_predecessors_recursively(g, depths, node_index)
                 ELSE depths,
             node_index + 1)

successors_max_depth(g) == walk_from_sinks(g, EmptyDepths, 0)

\* variant: every node is counted, whatever its state
count_all_nodes(g) == g.n

count_not_computed(g) == Cardinality({i \in node_indices(g) : g.node[i].tag # "Computed"})

\* variant: the missing depth of a node is not noticed
new_panics_never(g) == FALSE

new_panics(g) ==
    \E depths \in {successors_max_depth(g)} : \E i \in node_indices(g) : i \notin DOMAIN depths

\* successors_max_depth[&node_index.index()]: the lookup of a node without
\* a depth is the abort that new_panics states, and no graph is made then
depth_of(depths, i) == IF i \in DOMAIN depths THEN depths[i] ELSE 0

new_graph(g) ==
    The({[n |-> g.n,
          edges |-> g.edges,
          node |-> [i \in node_indices(g) |->
                       [priority |-> depth_of(depths, i), state |-> g.node[i]]]] :
         depths \in {successors_max_depth(g)}})

(***************************************************************************)
(* FheGraph::test_graph_init and FheGraph::assert_finishable, as the       *)
(* condition under which they return without failing an assertion.         *)
(***************************************************************************)
has_no_incoming(g, i) == neighbors_directed_Incoming(g, i) = <<>>

\* variant: init() calls the weaker check, the one of assert_finishable
test_graph_init_only_sources(g) ==
    /\ ~is_cyclic_directed(g)
    /\ \A i \in node_indices(g) :
           neighbors_directed_Incoming(g, i) = <<>> => g.node[i].state.tag = "Computed"

test_graph_init(g) ==
    /\ ~is_cyclic_directed(g)
    /\ \A i \in node_indices(g) :
           IF has_no_incoming(g, i)
               THEN g.node[i].state.tag = "Computed"
               ELSE g.node[i].state.tag = "ToCompute"

\* variant: only the cycles are checked before the distributed run
assert_finishable_acyclic_only(g) == ~is_cyclic_directed(g)

assert_finishable(g) ==
    /\ ~is_cyclic_directed(g)
    /\ \A i \in node_indices(g) :
           has_no_incoming(g, i) => g.node[i].state.tag = "Computed"

(***************************************************************************)
(* FheGraph::predecessors_list and FheGraph::build_task                    *)
(***************************************************************************)
is_computed(g, i) == g.node[i].state.tag = "Computed"

\* variant: a predecessor that is not Computed is passed over
predecessors_list_skips_check(g, index) == FALSE

predecessors_list_panics(g, index) ==
    \E k \in DOMAIN edges_directed_Incoming(g, index) :
        ~is_computed(g, edges_directed_Incoming(g, index)[k].source)

\* variant: the ciphertext is read at the target of the edge
predecessors_list_of_target(g, index) ==
    [k \in DOMAIN edges_directed_Incoming(g, index) |->
        [weight |-> edges_directed_Incoming(g, index)[k].weight,
         ct |-> g.node[edges_directed_Incoming(g, index)[k].target].state.ct]]

predecessors_list(g, index) ==
    [k \in DOMAIN edges_directed_Incoming(g, index) |->
        [weight |-> edges_directed_Incoming(g, index)[k].weight,
         ct |-> g.node[edges_directed_Incoming(g, index)[k].source].state.ct]]

\* variant: the state of the node is not looked at
build_task_unguarded(g, index) == predecessors_list_panics(g, index)

build_task_panics(g, index) ==
    \/ predecessors_list_panics(g, index)
    \/ g.node[index].state.tag # "ToCompute"

task_priority(g, index) == 0

build_task_returns(g, index) ==
    [priority |-> task_priority(g, index),
     task |-> [index |-> index,
               cts_and_weights |-> predecessors_list(g, index),
               lut |-> g.node[index].state.lut]]

\* variant: the node is marked with the wrong variant when its task is built
queued_state_wrong_variant(g, index) == Computed(NoCt)

queued_state(g, index) == BootsrapQueued

\* variant: building the task of a node also clears its priority
build_task_graph_clears_priority(g, index) ==
    [g EXCEPT !.node[index].state = queued_state(g, index),
              !.node[index].priority = 0]

build_task_graph(g, index) ==
    [g EXCEPT !.node[index].state = queued_state(g, index)]

\* nodes_to_compute.into_iter().map(|index| self.build_task(index)).collect():
\* build_task is called on the nodes in order, each call on the graph the
\* calls before it have left, up to the first call that fails.
RECURSIVE build_tasks_from(_, _, _, _)
build_tasks_from(graph_so_far, nodes_to_compute, k, tasks_so_far) ==
    The({IF k > Len(nodes_to_compute)
             THEN [graph |-> g, tasks |-> tasks, panicked |-> FALSE]
         ELSE IF build_task_panics(g, nodes_to_compute[k])
             THEN [graph |-> g, tasks |-> tasks, panicked |-> TRUE]
         ELSE build_tasks_from(build_task_graph(g, nodes_to_compute[k]), nodes_to_compute,
                               k + 1, Append(tasks, build_task_returns(g, nodes_to_compute[k]))) :
         g \in {graph_so_far}, tasks \in {tasks_so_far}})

build_tasks(g, nodes_to_compute) ==
    The({build_tasks_from(g, nodes, 1, <<>>) : nodes \in {nodes_to_compute}})

(***************************************************************************)
(* impl TaskGraph for FheGraph: init, commit_result, is_finished           *)
(***************************************************************************)
all_predecessors_computed(g, i) ==
    \A k \in DOMAIN neighbors_directed_Incoming(g, i) :
        is_computed(g, neighbors_directed_Incoming(g, i)[k])

node_indices_seq(g) == [k \in 1..g.n |-> k - 1]

\* variant: the state of the node is not looked at
init_nodes_of_any_state(g) ==
    SelectSeq(node_indices_seq(g), LAMBDA i : all_predecessors_computed(g, i))

init_nodes_to_compute(g) ==
    SelectSeq(node_indices_seq(g),
              LAMBDA i : g.node[i].state.tag = "ToCompute" /\ all_predecessors_computed(g, i))

init(g) ==
    IF ~test_graph_init(g)
        THEN [graph |-> g, tasks |-> <<>>, panicked |-> TRUE]
        ELSE build_tasks(g, init_nodes_to_compute(g))

\* variant: the counter is left as it is
decrement_forgotten(count) == count

decrement(count) == count - 1

\* variant: the node is left as it was
commit_node_forgotten(g, index, ct) == g

commit_node(g, index, ct) == [g EXCEPT !.node[index].state = Computed(ct)]

\* variant: the successors of the node are not looked at
commit_nodes_to_compute_forgotten(g, index) == <<>>

commit_nodes_to_compute(g, index) ==
    SelectSeq(neighbors_directed_Outgoing(g, index),
              LAMBDA i : all_predecessors_computed(g, i))

commit_successor_assert_fails(g, index) ==
    \E k \in DOMAIN neighbors_directed_Outgoing(g, index) :
        g.node[neighbors_directed_Outgoing(g, index)[k]].state.tag # "ToCompute"

\* variant: the assert rejects only a node that is already Computed
commit_assert_rejects_computed_only(g, index) ==
    g.node[index].state.tag = "Computed"

commit_assert_fails(g, index) == g.node[index].state.tag # "BootsrapQueued"

\* The counter is decremented before the state of the node is asserted; an
\* unsigned counter at zero cannot be decremented.
commit_result(g, count, result) ==
    IF count = 0
        THEN [graph |-> g, count |-> count, tasks |-> <<>>, panicked |-> TRUE]
    ELSE IF commit_assert_fails(g, result.index)
        THEN [graph |-> g, count |-> decrement(count), tasks |-> <<>>, panicked |-> TRUE]
    ELSE The({IF commit_successor_assert_fails(committed, result.index)
                  THEN [graph |-> committed, count |-> decrement(count),
                        tasks |-> <<>>, panicked |-> TRUE]
                  ELSE The({[graph |-> built.graph, count |-> decrement(count),
                             tasks |-> built.tasks, panicked |-> built.panicked] :
                            built \in {build_tasks(committed,
                                                   commit_nodes_to_compute(committed,
                                                                           result.index))}}) :
              committed \in {commit_node(g, result.index, result.ct)}})

\* variant: finished one node early
is_finished_early(count) == count <= 1

is_finished(count) == count = 0

(***************************************************************************)
(* Input graphs.  Every acyclic graph of at most MaxNodes nodes and at     *)
(* most MaxEdges edges, parallel edges included, for every numbering of    *)
(* its nodes; the edges are added in the order of (source, target), and    *)
(* the k-th edge added carries the weight k, so that the edges of a graph  *)
(* carry different weights.  A node without incoming edges is an input,    *)
(* Computed, and every other node is ToCompute.  The scenarios of the      *)
(* specification are added.                                                *)
(***************************************************************************)
InputCt(i) == (3 * i + 1) % CtModulus

LutOf(i) == LutNames[(i % Len(LutNames)) + 1]

MakeGraph(n, pairs) ==
    LET edges == [k \in 1..Len(pairs) |->
                     [source |-> pairs[k][1], target |-> pairs[k][2], weight |-> k]]
    IN [n |-> n,
        edges |-> edges,
        node |-> [i \in 0..(n - 1) |->
                     IF \E k \in 1..Len(pairs) : pairs[k][2] = i
                         THEN ToCompute(LutOf(i))
                         ELSE Computed(InputCt(i))]]

\* an edge from a node to itself is a cycle: such lists are left out at once
Pairs(n) == {p \in (0..(n - 1)) \X (0..(n - 1)) : p[1] # p[2]}

InOrder(n, pairs) ==
    \A k \in 1..(Len(pairs) - 1) :
        pairs[k][1] * n + pairs[k][2] <= pairs[k + 1][1] * n + pairs[k + 1][2]

PairSeqs(n) == UNION {{pairs \in [1..m -> Pairs(n)] : InOrder(n, pairs)} : m \in 0..MaxEdges}

IsBoundedGraph(g) ==
    \E n \in 1..MaxNodes : \E pairs \in PairSeqs(n) :
        /\ g = MakeGraph(n, pairs)
        /\ ~is_cyclic_directed(g)

\* A -> B, A -> C, B -> D, C -> D with A Computed
DiamondGraph == MakeGraph(4, <<<<0, 1>>, <<0, 2>>, <<1, 3>>, <<2, 3>>>>)

\* one Computed root and 5 ToCompute nodes that depend only on the root
FanGraph == MakeGraph(6, <<<<0, 1>>, <<0, 2>>, <<0, 3>>, <<0, 4>>, <<0, 5>>>>)

\* a single isolated Computed node
IsolatedGraph == MakeGraph(1, <<>>)

\* the diamond with the edge B -> D given twice
DoubledDiamondGraph ==
    MakeGraph(4, <<<<0, 1>>, <<0, 2>>, <<1, 3>>, <<1, 3>>, <<2, 3>>>>)

\* a Computed root A with A -> B -> C and A -> D: B and D are ready together,
\* and B has the longer chain below it
UnevenGraph == MakeGraph(4, <<<<0, 1>>, <<0, 3>>, <<1, 2>>>>)

ScenarioGraphs ==
    {DiamondGraph, FanGraph, IsolatedGraph, DoubledDiamondGraph, UnevenGraph}

EmptyGraph == [n |-> 0, edges |-> <<>>, node |-> [i \in {} |-> 0]]

NoMsg == [kind |-> "none"]
StopMsg == [kind |-> "stop"]
\* variant: the selector of the lookup table is lost on the way
TaskMsg_without_lut(input) ==
    [kind |-> "task", index |-> input.index, ct |-> input.ct, lut |-> LutNames[1]]

TaskMsg(input) == [kind |-> "task", index |-> input.index, ct |-> input.ct, lut |-> input.lut]
ReplyMsg(result) == [kind |-> "reply", index |-> result.index, ct |-> result.ct]

Workers == 1..nworkers

NoHist(g) ==
    [init_called |-> FALSE,
     init_panicked |-> FALSE,
     init_returned |-> <<>>,
     built |-> {},
     dispatched |-> [i \in node_indices(g) |-> 0],
     committed |-> [i \in node_indices(g) |-> 0],
     last_commit |-> [called |-> FALSE, index |-> 0, tasks |-> <<>>, panicked |-> FALSE],
     call |-> [op |-> "none", index |-> 0, before |-> ToCompute(NoLut),
               returned |-> <<>>, panicked |-> FALSE]]

Init ==
    /\ \/ IsBoundedGraph(raw)
       \/ raw \in ScenarioGraphs
    /\ nworkers \in 1..MaxWorkers
    /\ pc = "start"
    /\ graph = EmptyGraph
    /\ not_computed_nodes_count = 0
    /\ queue = <<>>
    /\ busy = [w \in 1..nworkers |-> FALSE]
    /\ chan_task = [w \in 1..nworkers |-> NoMsg]
    /\ chan_reply = [w \in 1..nworkers |-> NoMsg]
    /\ wpc = [w \in 1..nworkers |-> "start"]
    /\ hist = NoHist(raw)

(***************************************************************************)
(* Context::async_pbs_graph_queue_master1, up to the call of the engine.   *)
(***************************************************************************)
\* let mut graph = FheGraph::new(graph);
MasterNew ==
    /\ pc = "start"
    /\ IF new_panics(raw)
           THEN /\ pc' = "panicked"
                /\ UNCHANGED <<graph, not_computed_nodes_count>>
           ELSE /\ pc' = "constructed"
                /\ graph' = new_graph(raw)
                /\ not_computed_nodes_count' = count_not_computed(raw)
    /\ UNCHANGED <<raw, nworkers, queue, busy, chan_task, chan_reply, wpc, hist>>

\* graph.assert_finishable(); then the two broadcasts of the key material
MasterBroadcast ==
    /\ pc = "constructed"
    /\ IF ~assert_finishable(graph)
           THEN /\ pc' = "panicked"
                /\ UNCHANGED wpc
           ELSE /\ pc' = "engine"
                /\ wpc' = [w \in Workers |-> "key_sent"]
    /\ UNCHANGED <<raw, nworkers, graph, not_computed_nodes_count, queue, busy,
                   chan_task, chan_reply, hist>>

(***************************************************************************)
(* The engine, async_task_graph_queue_master: Initializing, Running,       *)
(* Draining, Finished.                                                     *)
(***************************************************************************)
EngineInit ==
    /\ pc = "engine"
    /\ \E r \in {init(graph)} :
          /\ graph' = r.graph
          /\ pc' = IF r.panicked THEN "panicked" ELSE "running"
          /\ queue' = r.tasks
          /\ hist' = [hist EXCEPT !.init_called = TRUE,
                                  !.init_panicked = r.panicked,
                                  !.init_returned = r.tasks,
                                  !.built = Range(r.tasks)]
    /\ UNCHANGED <<raw, nworkers, not_computed_nodes_count, busy, chan_task,
                   chan_reply, wpc>>

RemoveAt(s, k) == [j \in 1..(Len(s) - 1) |-> IF j < k THEN s[j] ELSE s[j + 1]]

is_highest_priority(q, k) == \A j \in DOMAIN q : q[j].priority <= q[k].priority

\* variant: a worker is taken for idle whatever it holds
is_idle_always(w) == TRUE

\* a worker without a task in flight
is_idle(w) == ~busy[w]

\* pop a highest-priority ready task, combine it, send it to an idle worker
Dispatch(w) ==
    /\ pc = "running"
    /\ ~is_finished(not_computed_nodes_count)
    /\ is_idle(w)
    /\ \E k \in DOMAIN queue :
           /\ is_highest_priority(queue, k)
           /\ queue' = RemoveAt(queue, k)
           /\ IF multisum_panics(queue[k].task)
                  THEN /\ pc' = "panicked"
                       /\ UNCHANGED <<busy, chan_task, hist>>
                  ELSE /\ pc' = pc
                       /\ busy' = [busy EXCEPT ![w] = TRUE]
                       /\ chan_task' = [chan_task EXCEPT ![w] = TaskMsg(multisum(queue[k].task))]
                       /\ hist' = [hist EXCEPT !.dispatched[queue[k].task.index] = @ + 1]
    /\ UNCHANGED <<raw, nworkers, graph, not_computed_nodes_count, chan_reply, wpc>>

\* variant: the tasks a commit unlocks are dropped
push_tasks_dropped(q, tasks) == q

\* push any newly-ready tasks
push_tasks(q, tasks) == q \o tasks

\* variant: the master waits for a reply whatever it could assign
nothing_to_assign_unchecked == TRUE

\* the master has no task to assign, or no idle worker to assign one to
nothing_to_assign == queue = <<>> \/ \A v \in Workers : busy[v]

\* wait for the reply of any worker, commit it, push the tasks it unlocks
Receive(w) ==
    /\ pc = "running"
    /\ ~is_finished(not_computed_nodes_count)
    /\ nothing_to_assign
    /\ chan_reply[w].kind = "reply"
    /\ \E r \in {commit_result(graph, not_computed_nodes_count,
                                [index |-> chan_reply[w].index, ct |-> chan_reply[w].ct])} :
          /\ graph' = r.graph
          /\ not_computed_nodes_count' = r.count
          /\ pc' = IF r.panicked THEN "panicked" ELSE pc
          /\ queue' = push_tasks(queue, r.tasks)
          /\ hist' = [hist EXCEPT !.committed[chan_reply[w].index] = @ + 1,
                                  !.built = @ \cup Range(r.tasks),
                                  !.last_commit = [called |-> TRUE,
                                                   index |-> chan_reply[w].index,
                                                   tasks |-> r.tasks,
                                                   panicked |-> r.panicked]]
    /\ busy' = [busy EXCEPT ![w] = FALSE]
    /\ chan_reply' = [chan_reply EXCEPT ![w] = NoMsg]
    /\ UNCHANGED <<raw, nworkers, chan_task, wpc>>

\* is_finished(): stop the workers and return the graph
Finish ==
    /\ pc = "running"
    /\ is_finished(not_computed_nodes_count)
    /\ pc' = "finished"
    /\ chan_task' = [w \in Workers |-> StopMsg]
    /\ UNCHANGED <<raw, nworkers, graph, not_computed_nodes_count, queue, busy,
                   chan_reply, wpc, hist>>

(***************************************************************************)
(* Context::async_pbs_graph_queue_worker1                                  *)
(***************************************************************************)
WorkerRecvKey(w) ==
    /\ wpc[w] = "key_sent"
    /\ wpc' = [wpc EXCEPT ![w] = "loop"]
    /\ UNCHANGED <<raw, nworkers, pc, graph, not_computed_nodes_count, queue, busy,
                   chan_task, chan_reply, hist>>

\* variant: the receive loop is entered before the key is there
in_receive_loop_before_key(w) == wpc[w] \in {"key_sent", "loop"}

\* the worker calls the receive loop after its two broadcasts and after
\* bincode::deserialize
in_receive_loop(w) == wpc[w] = "loop"

\* |(sks, luts), input| input.pbs(sks, luts)
WorkerProcess(w) ==
    /\ in_receive_loop(w)
    /\ chan_task[w].kind = "task"
    /\ chan_reply' = [chan_reply EXCEPT ![w] =
                         ReplyMsg(pbs([index |-> chan_task[w].index,
                                       ct |-> chan_task[w].ct,
                                       lut |-> chan_task[w].lut]))]
    /\ chan_task' = [chan_task EXCEPT ![w] = NoMsg]
    /\ UNCHANGED <<raw, nworkers, pc, graph, not_computed_nodes_count, queue, busy,
                   wpc, hist>>

\* variant: the worker returns to its caller when the loop has ended
after_receive_loop_returns == "returned"

\* panic!() follows the call of the receive loop
after_receive_loop == "aborted"

\* the receive loop ends; panic!()
WorkerStop(w) ==
    /\ in_receive_loop(w)
    /\ chan_task[w].kind = "stop"
    /\ wpc' = [wpc EXCEPT ![w] = after_receive_loop]
    /\ chan_task' = [chan_task EXCEPT ![w] = NoMsg]
    /\ UNCHANGED <<raw, nworkers, pc, graph, not_computed_nodes_count, queue, busy,
                   chan_reply, hist>>

Next ==
    \/ MasterNew
    \/ MasterBroadcast
    \/ EngineInit
    \/ \E w \in Workers : Dispatch(w)
    \/ \E w \in Workers : Receive(w)
    \/ Finish
    \/ \E w \in Workers : WorkerRecvKey(w)
    \/ \E w \in Workers : WorkerProcess(w)
    \/ \E w \in Workers : WorkerStop(w)

Spec == Init /\ [][Next]_vars

\* the master and the workers are running processes: the run does not stop
\* while one of them has a step to take
Fairness == WF_vars(Next)

FairSpec == Spec /\ Fairness

\* the scenario of 2 workers and one Computed root with 5 ToCompute successors
InitFan == Init /\ raw = FanGraph /\ nworkers = 2

SpecFan == InitFan /\ [][Next]_vars /\ Fairness

\* the scenario graphs alone, with every number of workers
InitScenarios == Init /\ raw \in ScenarioGraphs

SpecScenarios == InitScenarios /\ [][Next]_vars /\ Fairness

(***************************************************************************)
(* The methods of FheGraph called one at a time: from any state the        *)
(* scheduler of one worker reaches, predecessors_list, commit_result or    *)
(* multisum is called for any node of the graph, and the run ends with     *)
(* that call.                                                              *)
(***************************************************************************)
InitCalls == Init /\ nworkers = 1

GraphConstructed == pc \in {"constructed", "engine", "running", "finished"}

CallPredecessorsList(index) ==
    /\ GraphConstructed
    /\ pc' = "called"
    /\ hist' = [hist EXCEPT !.call =
                    [op |-> "predecessors_list", index |-> index,
                     before |-> graph.node[index].state,
                     returned |-> IF predecessors_list_panics(graph, index)
                                      THEN <<>>
                                      ELSE predecessors_list(graph, index),
                     panicked |-> predecessors_list_panics(graph, index)]]
    /\ UNCHANGED <<raw, nworkers, graph, not_computed_nodes_count, queue, busy,
                   chan_task, chan_reply, wpc>>

CallCommitResult(index) ==
    /\ GraphConstructed
    /\ pc' = "called"
    /\ \E r \in {commit_result(graph, not_computed_nodes_count,
                                [index |-> index, ct |-> 0])} :
          /\ graph' = r.graph
          /\ not_computed_nodes_count' = r.count
          /\ hist' = [hist EXCEPT !.call =
                          [op |-> "commit_result", index |-> index,
                           before |-> graph.node[index].state,
                           returned |-> r.tasks,
                           panicked |-> r.panicked]]
    /\ UNCHANGED <<raw, nworkers, queue, busy, chan_task, chan_reply, wpc>>

\* multisum called for the list predecessors_list gives for a node, the
\* empty list of a node without incoming edges included
CallMultisum(index) ==
    /\ GraphConstructed
    /\ ~predecessors_list_panics(graph, index)
    /\ pc' = "called"
    /\ \E task \in {[index |-> index,
                      cts_and_weights |-> predecessors_list(graph, index),
                      lut |-> LutOf(index)]} :
          hist' = [hist EXCEPT !.call =
                      [op |-> "multisum", index |-> index,
                       before |-> graph.node[index].state,
                       returned |-> IF multisum_panics(task)
                                        THEN <<>>
                                        ELSE <<multisum(task)>>,
                       panicked |-> multisum_panics(task)]]
    /\ UNCHANGED <<raw, nworkers, graph, not_computed_nodes_count, queue, busy,
                   chan_task, chan_reply, wpc>>

NextCalls ==
    \/ Next
    \/ \E index \in node_indices(graph) : CallPredecessorsList(index)
    \/ \E index \in node_indices(graph) : CallCommitResult(index)
    \/ \E index \in node_indices(graph) : CallMultisum(index)

SpecCalls == InitCalls /\ [][NextCalls]_vars

(***************************************************************************)
(* The same calls on graphs whose weights take more than eight bits: the   *)
(* weight of an edge is a u64 (FheGraph is a DiGraph<Node, u64>).  Every   *)
(* graph is one ToCompute node fed by n - 1 inputs, each over one edge of  *)
(* a weight of WideWeights.                                                *)
(***************************************************************************)
WideWeights == {1, 3, 255, 256, 259}

WeightedFanIn(n, weights) ==
    [n |-> n,
     edges |-> [k \in 1..(n - 1) |->
                   [source |-> k - 1, target |-> n - 1, weight |-> weights[k]]],
     node |-> [i \in 0..(n - 1) |->
                  IF i = n - 1 THEN ToCompute(LutOf(i)) ELSE Computed(InputCt(i))]]

IsWeightedGraph(g) ==
    \E n \in 2..MaxNodes : \E weights \in [1..(n - 1) -> WideWeights] :
        g = WeightedFanIn(n, weights)

InitWeights ==
    /\ IsWeightedGraph(raw)
    /\ nworkers = 1
    /\ pc = "start"
    /\ graph = EmptyGraph
    /\ not_computed_nodes_count = 0
    /\ queue = <<>>
    /\ busy = [w \in 1..nworkers |-> FALSE]
    /\ chan_task = [w \in 1..nworkers |-> NoMsg]
    /\ chan_reply = [w \in 1..nworkers |-> NoMsg]
    /\ wpc = [w \in 1..nworkers |-> "start"]
    /\ hist = NoHist(raw)

SpecWeights == InitWeights /\ [][NextCalls]_vars

(***************************************************************************)
(* The master given any graph: every graph of at most MaxNodes nodes and   *)
(* at most MaxEdges edges, cycles and edges from a node to itself          *)
(* included, with every node Computed or ToCompute whatever its edges.     *)
(* A graph is rejected before the master exchanges any message with a      *)
(* worker, so one worker is enough here.                                   *)
(***************************************************************************)
MakeAnyGraph(n, pairs, tags) ==
    [MakeGraph(n, pairs) EXCEPT
         !.node = [i \in 0..(n - 1) |->
                      IF tags[i] = "Computed"
                          THEN Computed(InputCt(i))
                          ELSE ToCompute(LutOf(i))]]

AnyPairs(n) == (0..(n - 1)) \X (0..(n - 1))

AnyPairSeqs(n) ==
    UNION {{pairs \in [1..m -> AnyPairs(n)] : InOrder(n, pairs)} : m \in 0..MaxEdges}

IsAnyGraph(g) ==
    \E n \in 1..MaxNodes : \E pairs \in AnyPairSeqs(n) :
        \E tags \in [0..(n - 1) -> {"Computed", "ToCompute"}] :
            g = MakeAnyGraph(n, pairs, tags)

InitAny ==
    /\ IsAnyGraph(raw)
    /\ nworkers = 1
    /\ pc = "start"
    /\ graph = EmptyGraph
    /\ not_computed_nodes_count = 0
    /\ queue = <<>>
    /\ busy = [w \in 1..nworkers |-> FALSE]
    /\ chan_task = [w \in 1..nworkers |-> NoMsg]
    /\ chan_reply = [w \in 1..nworkers |-> NoMsg]
    /\ wpc = [w \in 1..nworkers |-> "start"]
    /\ hist = NoHist(raw)

SpecAny == InitAny /\ [][Next]_vars

(***************************************************************************)
(* A worker that stops answering: it has been given a task and never       *)
(* replies to it.  Nothing else changes: the master has no timeout and     *)
(* takes no notice.                                                        *)
(***************************************************************************)
WorkerWedge(w) ==
    /\ in_receive_loop(w)
    /\ chan_task[w].kind = "task"
    /\ wpc' = [wpc EXCEPT ![w] = "wedged"]
    /\ UNCHANGED <<raw, nworkers, pc, graph, not_computed_nodes_count, queue, busy,
                   chan_task, chan_reply, hist>>

NextWedge ==
    \/ Next
    \/ \E w \in Workers : WorkerWedge(w)

SpecWedge == InitScenarios /\ [][NextWedge]_vars

(***************************************************************************)
(* Properties.                                                             *)
(***************************************************************************)
Finished == pc = "finished"

WasToCompute(i) == raw.node[i].tag = "ToCompute"

IncomingIds(g, i) == {k \in DOMAIN g.edges : g.edges[k].target = i}

OutgoingIds(g, i) == {k \in DOMAIN g.edges : g.edges[k].source = i}

PredecessorsComputed(g, i) ==
    \A k \in IncomingIds(g, i) : g.node[g.edges[k].source].state.tag = "Computed"

TaskNodes(tasks) == {tasks[k].task.index : k \in DOMAIN tasks}

NoRepeat(tasks) ==
    \A j, k \in DOMAIN tasks : tasks[j].task.index = tasks[k].task.index => j = k

\* C1: on every valid graph, with at least one worker that answers every
\* task it receives, every run of the master loop eventually reaches
\* Finished.
C1_EventuallyFinished == <>Finished

\* C2: whenever a run has reached Finished, every node of the graph is
\* Computed and not_computed_nodes_count is 0.
C2_FinishedAllComputed ==
    Finished =>
        /\ \A i \in node_indices(graph) : graph.node[i].state.tag = "Computed"
        /\ not_computed_nodes_count = 0

C2_Witness ==
    /\ Finished
    /\ Cardinality({i \in node_indices(raw) : WasToCompute(i)}) >= 2

\* C3: no node is dispatched twice and no node is committed twice; at
\* Finished every node that was ToCompute at construction has been committed
\* exactly once, and no other node has been committed.
C3_OnceEach ==
    /\ \A i \in node_indices(raw) : hist.dispatched[i] <= 1 /\ hist.committed[i] <= 1
    /\ Finished =>
           \A i \in node_indices(raw) :
               hist.committed[i] = IF WasToCompute(i) THEN 1 ELSE 0

C3_Witness ==
    /\ Finished
    /\ \E i, j \in node_indices(raw) :
           /\ i # j
           /\ hist.committed[i] = 1 /\ hist.committed[j] = 1
           /\ \E k \in node_indices(raw) : hist.committed[k] = 0

PairOfEdge(g, k) ==
    [weight |-> g.edges[k].weight, ct |-> g.node[g.edges[k].source].state.ct]

CountIn(list, x) == Cardinality({k \in DOMAIN list : list[k] = x})

TaskMatchesEdges(g, task) ==
    /\ Len(task.cts_and_weights) = Cardinality(IncomingIds(g, task.index))
    /\ \A k \in IncomingIds(g, task.index) :
           CountIn(task.cts_and_weights, PairOfEdge(g, k))
               = Cardinality({j \in IncomingIds(g, task.index) :
                                  PairOfEdge(g, j) = PairOfEdge(g, k)})

\* C4: a task is built for a node only when every predecessor of the node
\* is Computed; its list holds one (weight, ciphertext) pair per incoming
\* edge of the node, the weight of the edge with the ciphertext of the
\* source of the edge; it carries the index and the lookup table of the node.
C4_TaskOfReadyNode ==
    \A t \in hist.built :
        /\ t.task.index \in node_indices(raw)
        /\ WasToCompute(t.task.index)
        /\ PredecessorsComputed(graph, t.task.index)
        /\ TaskMatchesEdges(graph, t.task)
        /\ t.task.lut = raw.node[t.task.index].lut

C4_Witness ==
    \E t \in hist.built :
        /\ Len(t.task.cts_and_weights) >= 2
        /\ hist.committed[t.task.index] = 1
        /\ \E k \in IncomingIds(graph, t.task.index) :
               WasToCompute(graph.edges[k].source)

SuccessorPriorities(g, i) == {g.node[g.edges[k].target].priority : k \in OutgoingIds(g, i)}

\* C5: FheGraph::new gives every node a priority equal to one plus the
\* maximum priority among its successors, the maximum of no successors
\* being zero.
C5_PriorityRecurrence ==
    pc = "constructed" =>
        \A i \in node_indices(graph) :
            graph.node[i].priority = 1 + Max(SuccessorPriorities(graph, i) \cup {0})

C5_Witness ==
    /\ pc = "constructed"
    /\ \E i \in node_indices(graph) : Cardinality(SuccessorPriorities(graph, i)) >= 2

PathsToSink(g, i) ==
    {p \in UNION {[1..m -> node_indices(g)] : m \in 1..g.n} :
        /\ p[1] = i
        /\ OutgoingIds(g, p[Len(p)]) = {}
        /\ \A k \in 1..(Len(p) - 1) :
               \E e \in OutgoingIds(g, p[k]) : g.edges[e].target = p[k + 1]}

LongestPathEdges(g, i) == Max({Len(p) - 1 : p \in PathsToSink(g, i)})

\* C6, as stated: the priority of every node is the length, counted in edges,
\* of the longest path from the node to a sink; a sink has priority 0.
C6_PriorityIsLongestPathInEdges ==
    pc = "constructed" =>
        \A i \in node_indices(graph) : graph.node[i].priority = LongestPathEdges(graph, i)

\* C6, amended: the priority of every node is the length, counted in nodes,
\* of the longest path from the node to a sink; a sink has priority 1.
C6_PriorityIsLongestPathInNodes ==
    pc = "constructed" =>
        \A i \in node_indices(graph) :
            graph.node[i].priority = LongestPathEdges(graph, i) + 1

C6_Witness ==
    /\ pc = "constructed"
    /\ \E i \in node_indices(graph) :
           /\ graph.node[i].priority = 3
           /\ \E k \in OutgoingIds(graph, i) : graph.node[graph.edges[k].target].priority = 1

ReadyAtStart == {i \in node_indices(raw) :
                    /\ WasToCompute(i)
                    /\ \A k \in IncomingIds(raw, i) :
                           raw.node[raw.edges[k].source].tag = "Computed"}

\* C7: init() returns one task for each ToCompute node all of whose
\* predecessors are Computed, and no task for any other node; on the diamond
\* these are the tasks of B and C.
C7_InitReturnsReadyNodes ==
    hist.init_called =>
        /\ ~hist.init_panicked
        /\ NoRepeat(hist.init_returned)
        /\ TaskNodes(hist.init_returned) = ReadyAtStart
        /\ raw = DiamondGraph => TaskNodes(hist.init_returned) = {1, 2}

C7_Witness ==
    /\ raw = DiamondGraph
    /\ hist.init_called
    /\ pc = "running"
    /\ Len(queue) = 2

\* C8: commit_result(n) on a queued node n returns a task for a successor s
\* of n exactly when every predecessor of s is Computed after the commit.
C8_CommitReturnsReadySuccessors ==
    hist.last_commit.called =>
        /\ ~hist.last_commit.panicked
        /\ NoRepeat(hist.last_commit.tasks)
        /\ TaskNodes(hist.last_commit.tasks)
               = {graph.edges[k].target : k \in
                     {j \in OutgoingIds(graph, hist.last_commit.index) :
                         PredecessorsComputed(graph, graph.edges[j].target)}}

\* C9: for a graph without edges whose nodes are all Computed, is_finished()
\* is true right after construction, init() returns no task, and nothing is
\* ever dispatched or committed.
C9_NoEdgesFinishedAtOnce ==
    raw.edges = <<>> =>
        /\ pc \in {"constructed", "engine", "running", "finished"}
               => is_finished(not_computed_nodes_count)
        /\ hist.init_called => ~hist.init_panicked /\ hist.init_returned = <<>>
        /\ \A i \in node_indices(raw) : hist.dispatched[i] = 0 /\ hist.committed[i] = 0
        /\ pc # "panicked"

C9_Witness == raw = IsolatedGraph /\ Finished

C10_FanSafe ==
    /\ pc # "panicked"
    /\ hist.committed[0] = 0
    /\ \A i \in 1..5 : hist.committed[i] <= 1
    /\ Finished => \A i \in 1..5 : hist.committed[i] = 1

\* C10: with 2 workers and one Computed root with 5 ToCompute successors,
\* every run commits exactly 5 results, one per successor and each once.
C10_FanCommitsFive == []C10_FanSafe /\ <>Finished

C10_Witness ==
    /\ raw = FanGraph
    /\ nworkers = 2
    /\ Finished
    /\ \A i \in 1..5 : hist.committed[i] = 1

\* The value of node i as a function of the input graph alone: the value it
\* was given when it is Computed, else the lookup table of the node applied
\* to the weighted sum of the values of its predecessors, one term per edge.
RECURSIVE ValueOf(_, _), WeightedSum(_, _, _)
ValueOf(g, i) ==
    IF g.node[i].tag = "Computed" THEN g.node[i].ct
    ELSE Luts_get(g.node[i].lut, WeightedSum(g, i, IncomingIds(g, i)))

WeightedSum(g, i, ids) ==
    IF ids = {} THEN 0
    ELSE LET k == CHOOSE x \in ids : TRUE
         IN ((g.edges[k].weight % 256) * ValueOf(g, g.edges[k].source)
                 + WeightedSum(g, i, ids \ {k})) % CtModulus

\* C11: the value committed for a node is the same in every run on the same
\* input graph: it is a function of the input graph alone, whatever the
\* order of dispatch, the number of workers and the order of the replies.
C11_CommittedValueDetermined ==
    \A i \in node_indices(graph) :
        graph.node[i].state.tag = "Computed"
            => graph.node[i].state.ct = ValueOf(raw, i)

C11_Witness ==
    /\ Finished
    /\ nworkers >= 2
    /\ \E i \in node_indices(raw) :
           /\ WasToCompute(i)
           /\ Cardinality(IncomingIds(raw, i)) >= 2
           /\ \E k \in IncomingIds(raw, i) : WasToCompute(raw.edges[k].source)

\* commit_result for node a and then, when the first call returned, for node
\* b, each with the value computed for it
CommitBoth(g, count, a, b) ==
    LET first == commit_result(g, count, [index |-> a, ct |-> ValueOf(raw, a)])
        second == commit_result(first.graph, first.count,
                                [index |-> b, ct |-> ValueOf(raw, b)])
    IN IF first.panicked
           THEN [graph |-> first.graph, count |-> first.count,
                 nodes |-> TaskNodes(first.tasks), panicked |-> TRUE]
           ELSE [graph |-> second.graph, count |-> second.count,
                 nodes |-> TaskNodes(first.tasks) \cup TaskNodes(second.tasks),
                 panicked |-> second.panicked]

\* C12: for two distinct nodes that are both BootsrapQueued, committing them
\* in either order gives the same node states, the same counter and the same
\* union of returned task nodes.
C12_CommitsCommute ==
    pc = "running" =>
        \A a, b \in node_indices(graph) :
            /\ a # b
            /\ graph.node[a].state.tag = "BootsrapQueued"
            /\ graph.node[b].state.tag = "BootsrapQueued"
            => CommitBoth(graph, not_computed_nodes_count, a, b)
                   = CommitBoth(graph, not_computed_nodes_count, b, a)

\* the state of node i: the one of the input graph until the FheGraph is
\* constructed from it
CurrentTag(i) ==
    IF graph.n = 0 THEN raw.node[i].tag ELSE graph.node[i].state.tag

Forward(before, after) ==
    \/ after = before
    \/ before = "ToCompute" /\ after = "BootsrapQueued"
    \/ before = "BootsrapQueued" /\ after = "Computed"

\* C13: the state of a node only moves forward, ToCompute -> BootsrapQueued
\* -> Computed: no step moves a node backward and no step takes a node from
\* ToCompute to Computed directly.
C13_StateMovesForward ==
    [][\A i \in node_indices(raw) : Forward(CurrentTag(i), CurrentTag(i)')]_vars

C13_Witness ==
    \E i \in node_indices(graph) :
        /\ WasToCompute(i)
        /\ hist.dispatched[i] = 1
        /\ graph.node[i].state.tag = "Computed"

NotComputedNodes(g) == {i \in node_indices(g) : g.node[i].state.tag # "Computed"}

\* C14: in every reachable state of the constructed graph,
\* not_computed_nodes_count equals the number of nodes whose state is not
\* Computed; it is never below zero, and is_finished() is true exactly when
\* every node is Computed.
C14_CounterCountsNotComputed ==
    graph.n > 0 =>
        /\ not_computed_nodes_count = Cardinality(NotComputedNodes(graph))
        /\ not_computed_nodes_count >= 0
        /\ is_finished(not_computed_nodes_count) <=> NotComputedNodes(graph) = {}

C14_Witness ==
    /\ hist.last_commit.called
    /\ not_computed_nodes_count > 0
    /\ \E i, j \in node_indices(graph) :
           /\ graph.node[i].state.tag = "BootsrapQueued"
           /\ graph.node[j].state.tag = "ToCompute"

\* C15: predecessors_list called for a node with a predecessor that is not
\* Computed ends in a fatal error; it never returns a partial list.
C15_PredecessorsListFailsFast ==
    /\ hist.call.op = "predecessors_list"
    /\ ~PredecessorsComputed(graph, hist.call.index)
    => hist.call.panicked /\ hist.call.returned = <<>>

C15_Witness ==
    /\ hist.call.op = "predecessors_list"
    /\ hist.call.panicked
    /\ \E k, l \in IncomingIds(graph, hist.call.index) :
           /\ graph.node[graph.edges[k].source].state.tag = "Computed"
           /\ graph.node[graph.edges[l].source].state.tag # "Computed"

\* C16: commit_result called for a node that is not BootsrapQueued ends in a
\* fatal error, returns no task and leaves the node in the state it had: the
\* node is not set to Computed.
C16_CommitOfNotQueuedFails ==
    /\ hist.call.op = "commit_result"
    /\ hist.call.before.tag # "BootsrapQueued"
    => /\ hist.call.panicked
       /\ hist.call.returned = <<>>
       /\ graph.node[hist.call.index].state = hist.call.before

C16_Witness ==
    /\ hist.call.op = "commit_result"
    /\ hist.call.before.tag = "ToCompute"
    /\ hist.call.panicked
    /\ not_computed_nodes_count > 0

\* what init() asks of a graph, stated on the input graph
SourcesComputed(g) ==
    \A i \in node_indices(g) : IncomingIds(g, i) = {} => g.node[i].tag = "Computed"

OthersToCompute(g) ==
    \A i \in node_indices(g) : IncomingIds(g, i) # {} => g.node[i].tag = "ToCompute"

OnCycle(g, i) == i \in ReachIn(g, {g.edges[k].target : k \in OutgoingIds(g, i)}, g.n)

HasCycle(g) == \E i \in node_indices(g) : OnCycle(g, i)

ValidForInit(g) == ~HasCycle(g) /\ SourcesComputed(g) /\ OthersToCompute(g)

C18_CyclicGraphRejected ==
    HasCycle(raw) =>
        /\ pc \in {"start", "panicked"}
        /\ graph = EmptyGraph
        /\ ~hist.init_called
        /\ hist.built = {}
        /\ \A i \in node_indices(raw) : hist.dispatched[i] = 0
        /\ \A w \in Workers : wpc[w] = "start" /\ chan_task[w] = NoMsg

C18_Witness ==
    /\ pc = "panicked"
    /\ HasCycle(raw)
    /\ \A k \in DOMAIN raw.edges : raw.edges[k].source # raw.edges[k].target
    /\ \E i \in node_indices(raw) : OutgoingIds(raw, i) = {}
    /\ SourcesComputed(raw)

TaskSent == \E i \in node_indices(raw) : hist.dispatched[i] > 0

KeyDeserialized(w) == wpc[w] \in {"loop", "aborted"}

WorkerReplies(w) == chan_reply'[w] # chan_reply[w] /\ chan_reply'[w].kind = "reply"

ListOrders(n) == {f \in [1..n -> 1..n] : \A i, j \in 1..n : i # j => f[i] # f[j]}

Permuted(task, f) ==
    [task EXCEPT !.cts_and_weights =
                     [k \in 1..Len(task.cts_and_weights) |-> task.cts_and_weights[f[k]]]]

\* C20: the result of multisum followed by pbs for a task is the same for
\* every permutation of its (weight, ciphertext) list, each ciphertext
\* keeping its own weight.
C20_MultisumPbsOrderIndependent ==
    \A k \in DOMAIN queue :
        \A f \in ListOrders(Len(queue[k].task.cts_and_weights)) :
            pbs(multisum(Permuted(queue[k].task, f))) = pbs(multisum(queue[k].task))

C20_Witness ==
    \E k \in DOMAIN queue :
        \E i, j \in DOMAIN queue[k].task.cts_and_weights :
            /\ queue[k].task.cts_and_weights[i].ct # queue[k].task.cts_and_weights[j].ct
            /\ queue[k].task.cts_and_weights[i].weight
                   # queue[k].task.cts_and_weights[j].weight
            /\ multisum(queue[k].task).ct
                   # multisum_first_only(queue[k].task).ct

\* C21: the priority paired with every task that init() and commit_result()
\* return is the priority stored for the node of the task at construction.
C21_TaskCarriesNodePriority ==
    \A t \in hist.built : t.priority = graph.node[t.task.index].priority

TaskAssigned(w) == chan_task'[w] # chan_task[w] /\ chan_task'[w].kind = "task"

\* C22: whenever the master assigns a task to a worker, no task waiting in
\* the ready queue belongs to a node with a strictly higher construction
\* priority than the node of the task assigned.
C22_AssignsHighestNodePriority ==
    [][\A w \in Workers :
           TaskAssigned(w) =>
               \A j \in DOMAIN queue :
                   graph.node[queue[j].task.index].priority
                       <= graph.node[chan_task'[w].index].priority]_vars

HasParallelOutgoing(g, i) ==
    \E j, k \in OutgoingIds(g, i) : j # k /\ g.edges[j].target = g.edges[k].target

\* C23: when a node has several parallel edges to the same successor,
\* committing that node raises no fatal error and builds at most one task for
\* the successor, with one (weight, ciphertext) pair per parallel edge.
C23_ParallelEdgesOneTask ==
    hist.last_commit.called /\ HasParallelOutgoing(graph, hist.last_commit.index)
        => /\ ~hist.last_commit.panicked
           /\ NoRepeat(hist.last_commit.tasks)
           /\ \A k \in DOMAIN hist.last_commit.tasks :
                  TaskMatchesEdges(graph, hist.last_commit.tasks[k].task)

\* C24: on a valid graph no run of the engine reaches a fatal condition: no
\* assertion of init or commit_result fails, build_task is never called on a
\* node that is not ToCompute and predecessors_list never meets a predecessor
\* that is not Computed, for every order of dispatch and of reply.
C24_NoFatalCondition ==
    /\ pc # "panicked"
    /\ hist.init_called => ~hist.init_panicked
    /\ hist.last_commit.called => ~hist.last_commit.panicked

\* C25: after init() has returned and after every commit_result() call has
\* returned, a node is ToCompute exactly when at least one of its
\* predecessors is not Computed: no ready node is left without being queued.
C25_ReadyNodesAreQueued ==
    pc \in {"running", "finished"} =>
        \A i \in node_indices(graph) :
            graph.node[i].state.tag = "ToCompute" <=> ~PredecessorsComputed(graph, i)

C25_Witness ==
    /\ pc = "running"
    /\ hist.last_commit.called
    /\ \E i \in node_indices(graph) :
           /\ graph.node[i].state.tag = "ToCompute"
           /\ \E k \in IncomingIds(graph, i) :
                  graph.edges[k].source = hist.last_commit.index

RECURSIVE SumOf(_, _)
SumOf(f, S) ==
    IF S = {} THEN 0
    ELSE LET x == CHOOSE y \in S : TRUE IN f[x] + SumOf(f, S \ {x})

\* tasks sent and not yet committed
InFlight == SumOf(hist.dispatched, DOMAIN hist.dispatched)
                - SumOf(hist.committed, DOMAIN hist.committed)

\* the unanswered task a worker holds: one it has not taken yet, or one whose
\* reply the master has not taken yet
Held(w) == (IF chan_task[w].kind = "task" THEN 1 ELSE 0)
               + (IF chan_reply[w].kind = "reply" THEN 1 ELSE 0)

\* C26: the number of tasks in flight never exceeds the number of workers,
\* and no worker holds more than one unanswered task at any time.
C26_InFlightBoundedByWorkers ==
    /\ [](InFlight <= nworkers /\ \A w \in Workers : Held(w) <= 1)
    /\ [][\A w \in Workers : TaskAssigned(w) => Held(w) = 0]_vars

C26_Witness ==
    /\ nworkers = 2
    /\ InFlight = 2
    /\ queue # <<>>
    /\ \A w \in Workers : Held(w) = 1

ReplyTaken == \E w \in Workers : chan_reply[w].kind = "reply" /\ chan_reply'[w] = NoMsg

\* C27: the master loop is work-conserving: whenever the master waits for
\* and takes a reply, either the ready queue is empty or every worker has a
\* task in flight.
C27_WorkConserving ==
    [][ReplyTaken => queue = <<>> \/ \A w \in Workers : Held(w) = 1]_vars

C27_Witness ==
    /\ raw = FanGraph
    /\ nworkers = 2
    /\ hist.last_commit.called
    /\ queue # <<>>
    /\ InFlight = 1

\* the phase of the master: Finished from the moment is_finished() is true,
\* Draining while the ready queue is empty and tasks are in flight
Phase ==
    CASE pc \in {"start", "constructed"} -> "Idle"
      [] pc = "engine" -> "Initializing"
      [] pc = "finished" -> "Finished"
      [] pc = "running" /\ is_finished(not_computed_nodes_count) -> "Finished"
      [] pc = "running" /\ queue = <<>> /\ InFlight > 0 -> "Draining"
      [] pc = "running" -> "Running"
      [] OTHER -> "Aborted"

PhaseOrder == <<"Idle", "Initializing", "Running", "Draining", "Finished", "Aborted">>

Rank(phase) == CHOOSE k \in DOMAIN PhaseOrder : PhaseOrder[k] = phase

\* C28: once the ready queue is empty while tasks are in flight (Draining)
\* the master assigns no new work for the rest of the run: the phases of the
\* master advance only in the order Idle, Initializing, Running, Draining,
\* Finished.
C28_PhasesOnlyAdvance ==
    [][\E before \in {Phase} : \E after \in {Phase'} : Rank(after) >= Rank(before)]_vars

\* C28, as the engine has to work: while Draining the master assigns no
\* work, but a reply committed while Draining may unlock new tasks; these
\* are pushed to the ready queue and the master is Running again.  Apart from
\* this step back from Draining to Running the phases only advance.
C28_DrainingUntilTasksUnlocked ==
    [][\E before \in {Phase} : \E after \in {Phase'} :
           /\ before = "Draining" => \A w \in Workers : ~TaskAssigned(w)
           /\ Rank(after) < Rank(before)
                  => /\ before = "Draining" /\ after = "Running"
                     /\ ReplyTaken
                     /\ hist'.last_commit.tasks # <<>>
           /\ (before = "Draining" /\ ReplyTaken /\ pc' = "running")
                  => queue' = hist'.last_commit.tasks]_vars

C28_Witness ==
    /\ pc = "running"
    /\ hist.last_commit.called
    /\ hist.last_commit.tasks # <<>>
    /\ queue = hist.last_commit.tasks
    /\ InFlight = 0

IsFinishedNow == graph.n > 0 /\ is_finished(not_computed_nodes_count)

\* C29: after is_finished() has become true the master sends no further
\* task, and at that moment the ready queue is empty and no task is in flight.
C29_NothingLeftWhenFinished ==
    /\ [](IsFinishedNow => /\ queue = <<>>
                           /\ InFlight = 0
                           /\ \A w \in Workers : Held(w) = 0)
    /\ [][IsFinishedNow => \A w \in Workers : ~TaskAssigned(w)]_vars

C29_Witness ==
    /\ pc = "running"
    /\ IsFinishedNow
    /\ nworkers = 2
    /\ hist.last_commit.called
    /\ \A i \in node_indices(raw) : WasToCompute(i) => hist.dispatched[i] = 1
    /\ Cardinality({i \in node_indices(raw) : WasToCompute(i)}) >= 2

\* C30: after the master has reached Finished every worker eventually
\* leaves its receive loop; a worker never returns normally from
\* async_pbs_graph_queue_worker1, it aborts once the loop has ended.
C30_WorkersAbortAfterFinished ==
    /\ Finished ~> \A w \in Workers : wpc[w] = "aborted"
    /\ [](\A w \in Workers : wpc[w] \in {"start", "key_sent", "loop", "aborted"})

C30_Witness ==
    /\ Finished
    /\ nworkers = 2
    /\ \A w \in Workers : wpc[w] = "aborted"
    /\ \E i \in node_indices(raw) : hist.committed[i] = 1

\* C31: if a worker never replies to a task it has been given, the run
\* never reaches Finished: the node of that task stays BootsrapQueued and is
\* never dispatched again to another worker.
C31_WedgedWorkerStallsRun ==
    \A w \in Workers :
        wpc[w] = "wedged" =>
            /\ pc # "finished"
            /\ ~is_finished(not_computed_nodes_count)
            /\ chan_task[w].kind = "task"
            /\ graph.node[chan_task[w].index].state.tag = "BootsrapQueued"
            /\ hist.dispatched[chan_task[w].index] = 1
            /\ \A v \in Workers \ {w} :
                   /\ chan_task[v].kind = "task" => chan_task[v].index # chan_task[w].index
                   /\ chan_reply[v].kind = "reply" => chan_reply[v].index # chan_task[w].index

C31_Witness ==
    /\ nworkers = 2
    /\ pc = "running"
    /\ queue = <<>>
    /\ \E w \in Workers :
           /\ wpc[w] = "wedged"
           /\ \A v \in Workers \ {w} : wpc[v] = "loop" /\ Held(v) = 0
    /\ \E i \in node_indices(raw) : hist.committed[i] = 1

\* C32: the result committed for a node carries the index of the node and
\* the value pbs(multisum(task of the node)), the same whether the master
\* combines and a worker bootstraps or one process does both; multisum and
\* pbs pass the index through, and multisum passes the lookup table through.
C32_SplitPipelineEqualsBoth ==
    /\ \A t \in hist.built :
           /\ multisum(t.task).index = t.task.index
           /\ multisum(t.task).lut = t.task.lut
           /\ multisum_then_pbs(t.task).index = t.task.index
           /\ graph.node[t.task.index].state.tag = "Computed"
                  => graph.node[t.task.index].state.ct = multisum_then_pbs(t.task).ct
    /\ \A w \in Workers :
           chan_reply[w].kind = "reply"
               => \E t \in hist.built :
                      /\ chan_reply[w].index = t.task.index
                      /\ chan_reply[w].ct = multisum_then_pbs(t.task).ct

C32_Witness ==
    \E t \in hist.built :
        /\ graph.node[t.task.index].state.tag = "Computed"
        /\ Len(t.task.cts_and_weights) >= 2
        /\ t.task.lut # LutNames[1]
        /\ t.task.index # 0
        /\ multisum(t.task).ct # multisum_then_pbs(t.task).ct

\* C33: multisum on an empty list of (weight, ciphertext) pairs ends in a
\* fatal error; and in no run on a valid graph is a task with an empty list
\* built or dispatched, since every ToCompute node has an incoming edge.
C33_EmptyListFatalAndNeverBuilt ==
    /\ hist.call.op = "multisum" /\ IncomingIds(graph, hist.call.index) = {}
           => hist.call.panicked /\ hist.call.returned = <<>>
    /\ hist.call.op = "multisum" /\ IncomingIds(graph, hist.call.index) # {}
           => ~hist.call.panicked /\ Len(hist.call.returned) = 1
    /\ \A i \in node_indices(raw) : WasToCompute(i) => IncomingIds(raw, i) # {}
    /\ \A t \in hist.built : t.task.cts_and_weights # <<>>
    /\ \A k \in DOMAIN queue : queue[k].task.cts_and_weights # <<>>

C33_Witness ==
    /\ hist.call.op = "multisum"
    /\ hist.call.panicked
    /\ hist.built # {}

RECURSIVE FullWeightSum(_, _, _)
\* the sum over the incoming edges of node i of weight x value of the source,
\* each weight taken whole
FullWeightSum(g, i, ids) ==
    IF ids = {} THEN 0
    ELSE LET k == CHOOSE x \in ids : TRUE
         IN (g.edges[k].weight * g.node[g.edges[k].source].state.ct
                 + FullWeightSum(g, i, ids \ {k})) % CtModulus

\* C34: the multi-sum computed for a node is the sum over its incoming edges
\* of edge weight x predecessor value whatever the weights: the scalar given
\* to the primitive for an edge is the weight of the edge, not reduced and
\* not truncated.
C34_NoWeightTruncated ==
    hist.call.op = "multisum" /\ ~hist.call.panicked
        => /\ hist.call.returned[1].ct
                  = FullWeightSum(graph, hist.call.index,
                                  IncomingIds(graph, hist.call.index))
           /\ \A k \in IncomingIds(graph, hist.call.index) :
                  as_u8(graph.edges[k].weight) = graph.edges[k].weight

\* the nodes for which a step calls commit_result, by the engine or directly
CommittedInStep ==
    {i \in node_indices(graph) : hist'.committed[i] # hist.committed[i]}
        \cup (IF hist'.call # hist.call /\ hist'.call.op = "commit_result"
                  THEN {hist'.call.index}
                  ELSE {})

\* the nodes of the tasks that the call of init() or commit_result() made in
\* a step returns
QueuedInStep ==
    IF hist'.init_called /\ ~hist.init_called
        THEN TaskNodes(hist'.init_returned)
    ELSE IF hist'.committed # hist.committed
        THEN TaskNodes(hist'.last_commit.tasks)
    ELSE IF hist'.call # hist.call /\ hist'.call.op = "commit_result"
        THEN TaskNodes(hist'.call.returned)
    ELSE {}

C35_FrameOfStep ==
    graph.n > 0 =>
        /\ graph'.n = graph.n
        /\ graph'.edges = graph.edges
        /\ \A i \in node_indices(graph) :
               /\ graph'.node[i].priority = graph.node[i].priority
               /\ graph.node[i].state.tag = "Computed"
                      => graph'.node[i].state = graph.node[i].state
               /\ graph'.node[i].state # graph.node[i].state
                      => \/ i \in CommittedInStep
                         \/ /\ i \in QueuedInStep
                            /\ \A n \in CommittedInStep :
                                   \E k \in OutgoingIds(graph, n) :
                                       graph.edges[k].target = i

\* C35: init() and commit_result() never change the edges, the weights or
\* the priority of a node; commit_result(n) changes the state of n and of
\* the successors of n it queues, and of no other node; the value of a
\* Computed node is never overwritten.
C35_InitAndCommitFrame == [][C35_FrameOfStep]_vars

C35_Witness ==
    /\ hist.call.op = "commit_result"
    /\ hist.call.before.tag = "BootsrapQueued"
    /\ hist.call.returned # <<>>
    /\ \E i \in node_indices(graph) :
           i # hist.call.index /\ hist.committed[i] = 1

\* a step that calls commit_result directly for a node that is not
\* BootsrapQueued
RejectedCommitStep ==
    /\ hist'.call # hist.call
    /\ hist'.call.op = "commit_result"
    /\ graph.node[hist'.call.index].state.tag # "BootsrapQueued"

\* C36: a commit_result rejected because the node is not BootsrapQueued
\* leaves the graph as it was before the call: no node changes state and
\* not_computed_nodes_count keeps its value.
C36_RejectedCommitChangesNothing ==
    [][RejectedCommitStep
           => /\ hist'.call.panicked
              /\ graph' = graph
              /\ not_computed_nodes_count' = not_computed_nodes_count]_vars

SuccessorsOf(g, i) == {g.edges[k].target : k \in OutgoingIds(g, i)}

\* C37: the backward priority walk from every sink terminates on every
\* finite graph; on an acyclic graph it gives every node a priority, fixed
\* once all the successors of the node have theirs, so FheGraph::new never
\* fails on an acyclic graph.
C37_WalkCoversAcyclicGraphs ==
    pc # "start" =>
        \E depths \in {successors_max_depth(raw)} :
            /\ DOMAIN depths \subseteq node_indices(raw)
            /\ \A i \in DOMAIN depths :
                   /\ SuccessorsOf(raw, i) \subseteq DOMAIN depths
                   /\ \A s \in SuccessorsOf(raw, i) : depths[s] < depths[i]
                   /\ depths[i] = 1 + Max({depths[s] : s \in SuccessorsOf(raw, i)} \cup {0})
            /\ ~HasCycle(raw) =>
                   /\ DOMAIN depths = node_indices(raw)
                   /\ ~new_panics(raw)
                   /\ graph.n = raw.n
                   /\ \A i \in node_indices(raw) : graph.node[i].priority = depths[i]
            /\ HasCycle(raw) => \A i \in node_indices(raw) : OnCycle(raw, i) => i \notin DOMAIN depths

C37_Witness ==
    /\ pc = "constructed"
    /\ ~SourcesComputed(raw)
    /\ \E i \in node_indices(graph) :
           \E s, t \in SuccessorsOf(graph, i) :
               graph.node[s].priority < graph.node[t].priority

\* C38: when the graph is cyclic or has a node without incoming edges that
\* is not Computed, the master fails before it takes part in any broadcast:
\* no worker is sent the key length, the key bytes or a task.
C38_InvalidGraphFailsBeforeBroadcast ==
    HasCycle(raw) \/ ~SourcesComputed(raw) =>
        /\ pc \in {"start", "constructed", "panicked"}
        /\ \A w \in Workers :
               /\ wpc[w] = "start"
               /\ chan_task[w] = NoMsg
               /\ chan_reply[w] = NoMsg
        /\ ~hist.init_called
        /\ \A i \in node_indices(raw) : hist.dispatched[i] = 0

C38_Witness ==
    /\ pc = "panicked"
    /\ graph.n > 0
    /\ ~HasCycle(raw)
    /\ ~SourcesComputed(raw)
    /\ raw.edges # <<>>

\* C39: every graph that test_graph_init accepts, assert_finishable accepts
\* too; and a graph that assert_finishable accepts is rejected by
\* test_graph_init exactly when some node with incoming edges is not
\* ToCompute.
C39_InitCheckIsStricter ==
    /\ pc \in {"constructed", "engine"} =>
           /\ test_graph_init(graph) => assert_finishable(graph)
           /\ assert_finishable(graph)
                  => (~test_graph_init(graph) <=> ~OthersToCompute(raw))
    /\ hist.init_called => (hist.init_panicked <=> ~OthersToCompute(raw))

C39_Witness ==
    /\ pc = "engine"
    /\ assert_finishable(graph)
    /\ ~test_graph_init(graph)
    /\ \E i \in node_indices(raw) : IncomingIds(raw, i) # {} /\ raw.node[i].tag = "Computed"

====
